---- MODULE Spec2Model ----
(***************************************************************************)
(* Model of the variant-validation scripts of bcbio.variation:             *)
(*   pull_tps_fps.py               truth index and partition of a call set *)
(*   explore_val_classification.py per-record metrics and the metric table *)
(*   freebayes_filtering.py        strand bias and allele-depth deviation  *)
(* A line of a file is a sequence of one-character strings; Python's None  *)
(* and raised exceptions are explicit outcomes.                            *)
(***************************************************************************)
EXTENDS Integers, Sequences, FiniteSets, TLC

VARIABLES
    pc,          \* position of the running script
    err,         \* "" or the name of the exception that ended the script
    val_vcf,     \* pull_tps_fps: lines of the validated-call file
    full_vcf,    \* pull_tps_fps: lines of the full call set
    i,           \* index of the next line / record of the running loop
    tp_coords,   \* read_validation: list of true-positive coordinates
    fp_coords,   \* read_validation: list of false-positive coordinates
    coords,      \* main: {"fp": fp_coords, "tp": tp_coords} as sets
    outs,        \* main: {"fp": fp_handle, "tp": tp_handle}, lines written
    data,        \* metric functions: the per-sample call block
    ret,         \* metric functions: outcome of each function on data
    metrics,     \* read_vcf_metrics: configured INFO metric names
    format_metrics, \* read_vcf_metrics: configured format metric names
    target,      \* read_vcf_metrics: the label of the file's records
    recs,        \* read_vcf_metrics: the records of the reader
    d,           \* read_vcf_metrics: the dictionary of columns
    mp_tps_vcf,  \* pull_tps_fps: lines of the training true-positive file
    mp_fps_vcf,  \* pull_tps_fps: lines of the training false-positive file
    wrongtp_out, \* pull_tps_fps: lines written to the train-wrongtps file
    wrongfp_out, \* pull_tps_fps: lines written to the train-wrongfps file
    fn_vcf,      \* identify_fns: lines of the false-negative file
    nohap_vcf,   \* identify_fns: lines of the non-haploid call file
    fosmid_vcf,  \* identify_fns: lines of the filtered fosmid call file
    coords_list, \* read_fn_coords: the list coords
    fn_coords,   \* identify_fns main: the set fn_coords
    nohap_out,   \* identify_fns: lines written to the nohap output
    filtered_out \* identify_fns: lines written to the filtered output

vars == <<pc, err, val_vcf, full_vcf, i, tp_coords, fp_coords, coords, outs,
          data, ret, metrics, format_metrics, target, recs, d,
          mp_tps_vcf, mp_fps_vcf, wrongtp_out, wrongfp_out,
          fn_vcf, nohap_vcf, fosmid_vcf, coords_list, fn_coords, nohap_out,
          filtered_out>>

partition_vars == <<val_vcf, full_vcf, tp_coords, fp_coords, coords, outs>>
metric_vars == <<data, ret>>
table_vars == <<metrics, format_metrics, target, recs, d>>
train_vars == <<mp_tps_vcf, mp_fps_vcf, wrongtp_out, wrongfp_out>>
fn_vars == <<fn_vcf, nohap_vcf, fosmid_vcf, coords_list, fn_coords, nohap_out,
             filtered_out>>

-----------------------------------------------------------------------------
(* Bounds of the model *)

MaxValLines == 2
MaxFullLines == 2
MaxDepth == 8
MaxPLLen == 3
MaxRecs == 2
MaxTrainLines == 2
MaxCallLines == 2

-----------------------------------------------------------------------------
(* Strings *)

TAB == "\t"
NL == "\n"
Whitespace == {" ", TAB, NL, "\r"}

Range(s) == {s[j] : j \in 1..Len(s)}

\* line.startswith(prefix) for a one-character prefix
StartsWith(line, c) ==
    Len(line) > 0 /\ line[1] = c

\* s.endswith(suffix) for a one-character suffix
EndsWith(s, c) ==
    Len(s) > 0 /\ s[Len(s)] = c

\* s.rstrip(): s without its trailing whitespace
RECURSIVE RStrip(_)
RStrip_none(s) ==
    s
RStrip(s) ==
    IF Len(s) > 0 /\ s[Len(s)] \in Whitespace
    THEN RStrip(SubSeq(s, 1, Len(s) - 1))
    ELSE s

\* line.split("\t"): the fields between tabs; always at least one field
RECURSIVE SplitFrom(_, _, _)
SplitFrom(line, j, cur) ==
    IF j > Len(line) THEN <<cur>>
    ELSE IF line[j] = TAB THEN <<cur>> \o SplitFrom(line, j + 1, <<>>)
    ELSE SplitFrom(line, j + 1, Append(cur, line[j]))

Split(line) ==
    SplitFrom(line, 1, <<>>)

\* parts[0], parts[1] exist
HasCoords(line) ==
    Len(Split(line)) >= 2

_get_coords_chrom_only(line) ==
    LET parts == Split(line) IN <<parts[1], parts[1]>>
_get_coords(line) ==
    LET parts == Split(line) IN <<parts[1], parts[2]>>

-----------------------------------------------------------------------------
(* Input files of pull_tps_fps *)

RECURSIVE Join(_)
Join(fields) ==
    IF Len(fields) = 0 THEN <<>>
    ELSE IF Len(fields) = 1 THEN fields[1]
    ELSE fields[1] \o <<TAB>> \o Join(Tail(fields))

\* a line of a file as the file iterator yields it: newline-terminated
TextLine(fields) ==
    Join(fields) \o <<NL>>

HeaderLine == TextLine(<< <<"#", "h">> >>)
ShortLine == TextLine(<< <<"a">> >>)

ValLines ==
    { HeaderLine,
      TextLine(<< <<"a">>, <<"1">>, <<"1">> >>),
      TextLine(<< <<"a">>, <<"1">>, <<"0">> >>),
      TextLine(<< <<"a">>, <<"2">>, <<"1">> >>),
      TextLine(<< <<"a">>, <<"2">>, <<"1", "0">> >>),
      ShortLine }

FullLines ==
    { HeaderLine,
      TextLine(<< <<"a">>, <<"1">>, <<"x">> >>),
      TextLine(<< <<"a">>, <<"2">>, <<"x">> >>),
      TextLine(<< <<"a">>, <<"3">>, <<"x">> >>),
      ShortLine }

Files(lines, n) ==
    UNION {[1..k -> lines] : k \in 0..n}

Labels == {"tp", "fp"}

-----------------------------------------------------------------------------
(* pull_tps_fps.py *)

NoPartition ==
    /\ val_vcf = <<>>
    /\ full_vcf = <<>>
    /\ tp_coords = <<>>
    /\ fp_coords = <<>>
    /\ coords = [tp |-> {}, fp |-> {}]
    /\ outs = [tp |-> <<>>, fp |-> <<>>]

NoMetrics ==
    /\ data = <<>>
    /\ ret = <<>>

NoTable ==
    /\ metrics = <<>>
    /\ format_metrics = <<>>
    /\ target = 0
    /\ recs = <<>>
    /\ d = <<>>

NoTrain ==
    /\ mp_tps_vcf = <<>>
    /\ mp_fps_vcf = <<>>
    /\ wrongtp_out = <<>>
    /\ wrongfp_out = <<>>

NoFn ==
    /\ fn_vcf = <<>>
    /\ nohap_vcf = <<>>
    /\ fosmid_vcf = <<>>
    /\ coords_list = <<>>
    /\ fn_coords = {}
    /\ nohap_out = <<>>
    /\ filtered_out = <<>>

InitPartition ==
    /\ pc = "read_validation"
    /\ err = ""
    /\ i = 1
    /\ val_vcf \in Files(ValLines, MaxValLines)
    /\ full_vcf \in Files(FullLines, MaxFullLines)
    /\ tp_coords = <<>>
    /\ fp_coords = <<>>
    /\ coords = [tp |-> {}, fp |-> {}]
    /\ outs = [tp |-> <<>>, fp |-> <<>>]
    /\ NoMetrics
    /\ NoTable
    /\ NoTrain
    /\ NoFn

\* one iteration of the loop of read_validation
read_validation_line ==
    /\ pc = "read_validation"
    /\ err = ""
    /\ i <= Len(val_vcf)
    /\ LET line == val_vcf[i] IN
         IF StartsWith(line, "#")
         THEN /\ i' = i + 1
              /\ UNCHANGED <<err, tp_coords, fp_coords>>
         ELSE IF ~HasCoords(line)
         THEN /\ err' = "IndexError"
              /\ UNCHANGED <<i, tp_coords, fp_coords>>
         ELSE IF EndsWith(RStrip(line), "0")
         THEN /\ fp_coords' = Append(fp_coords, _get_coords(line))
              /\ i' = i + 1
              /\ UNCHANGED <<err, tp_coords>>
         ELSE /\ tp_coords' = Append(tp_coords, _get_coords(line))
              /\ i' = i + 1
              /\ UNCHANGED <<err, fp_coords>>
    /\ UNCHANGED <<pc, val_vcf, full_vcf, coords, outs>>
    /\ UNCHANGED <<metric_vars, table_vars, train_vars, fn_vars>>

\* return set(tp_coords), set(fp_coords); main builds coords and opens the outputs
read_validation_return ==
    /\ pc = "read_validation"
    /\ err = ""
    /\ i > Len(val_vcf)
    /\ coords' = [fp |-> Range(fp_coords), tp |-> Range(tp_coords)]
    /\ pc' = "write_vcf_subsets"
    /\ i' = 1
    /\ UNCHANGED <<err, val_vcf, full_vcf, tp_coords, fp_coords, outs>>
    /\ UNCHANGED <<metric_vars, table_vars, train_vars, fn_vars>>

\* a variant of the loop body that consumes the matched coordinate
write_vcf_subsets_line_consume ==
    /\ pc = "write_vcf_subsets"
    /\ err = ""
    /\ i <= Len(full_vcf)
    /\ LET line == full_vcf[i] IN
         IF StartsWith(line, "#")
         THEN /\ outs' = [k \in Labels |-> Append(outs[k], line)]
              /\ i' = i + 1
              /\ UNCHANGED <<err, coords>>
         ELSE IF ~HasCoords(line)
         THEN /\ err' = "IndexError"
              /\ UNCHANGED <<i, outs, coords>>
         ELSE LET cur_coords == _get_coords(line) IN
              /\ outs' = [k \in Labels |->
                            IF cur_coords \in coords[k]
                            THEN Append(outs[k], line)
                            ELSE outs[k]]
              /\ coords' = [k \in Labels |-> coords[k] \ {cur_coords}]
              /\ i' = i + 1
              /\ UNCHANGED err
    /\ UNCHANGED <<pc, val_vcf, full_vcf, tp_coords, fp_coords>>
    /\ UNCHANGED <<metric_vars, table_vars, train_vars, fn_vars>>

\* a variant of the loop body that stops at the first matching label
write_vcf_subsets_line_exclusive ==
    /\ pc = "write_vcf_subsets"
    /\ err = ""
    /\ i <= Len(full_vcf)
    /\ LET line == full_vcf[i] IN
         IF StartsWith(line, "#")
         THEN /\ outs' = [k \in Labels |-> Append(outs[k], line)]
              /\ i' = i + 1
              /\ UNCHANGED err
         ELSE IF ~HasCoords(line)
         THEN /\ err' = "IndexError"
              /\ UNCHANGED <<i, outs>>
         ELSE LET cur_coords == _get_coords(line) IN
              /\ outs' = [k \in Labels |->
                            IF /\ cur_coords \in coords[k]
                               /\ (k = "tp" \/ cur_coords \notin coords["tp"])
                            THEN Append(outs[k], line)
                            ELSE outs[k]]
              /\ i' = i + 1
              /\ UNCHANGED err
    /\ UNCHANGED <<pc, val_vcf, full_vcf, tp_coords, fp_coords, coords>>
    /\ UNCHANGED <<metric_vars, table_vars, train_vars, fn_vars>>

\* one iteration of the loop of write_vcf_subsets
write_vcf_subsets_line ==
    /\ pc = "write_vcf_subsets"
    /\ err = ""
    /\ i <= Len(full_vcf)
    /\ LET line == full_vcf[i] IN
         IF StartsWith(line, "#")
         THEN /\ outs' = [k \in Labels |-> Append(outs[k], line)]
              /\ i' = i + 1
              /\ UNCHANGED err
         ELSE IF ~HasCoords(line)
         THEN /\ err' = "IndexError"
              /\ UNCHANGED <<i, outs>>
         ELSE LET cur_coords == _get_coords(line) IN
              /\ outs' = [k \in Labels |->
                            IF cur_coords \in coords[k]
                            THEN Append(outs[k], line)
                            ELSE outs[k]]
              /\ i' = i + 1
              /\ UNCHANGED err
    /\ UNCHANGED <<pc, val_vcf, full_vcf, tp_coords, fp_coords, coords>>
    /\ UNCHANGED <<metric_vars, table_vars, train_vars, fn_vars>>

\* the loop of write_vcf_subsets is exhausted and the files are closed
write_vcf_subsets_return ==
    /\ pc = "write_vcf_subsets"
    /\ err = ""
    /\ i > Len(full_vcf)
    /\ pc' = "done"
    /\ UNCHANGED <<err, i, partition_vars, metric_vars, table_vars, train_vars, fn_vars>>

NextPartition ==
    \/ read_validation_line
    \/ read_validation_return
    \/ write_vcf_subsets_line
    \/ write_vcf_subsets_return

SpecPartition == InitPartition /\ [][NextPartition]_vars

-----------------------------------------------------------------------------
(* pull_tps_fps.py: main after the partition, the two write_incorrect_train *)
(* passes over the training files                                            *)

Line_a1(tok) == TextLine(<< <<"a">>, <<"1">>, tok >>)
Line_a2(tok) == TextLine(<< <<"a">>, <<"2">>, tok >>)

\* validated files that give each truth set its possible contents
MainValFiles ==
    { <<>>,
      <<Line_a1(<<"1">>)>>,
      <<Line_a1(<<"0">>)>>,
      <<Line_a1(<<"0">>), Line_a2(<<"1">>)>>,
      <<Line_a1(<<"1">>), Line_a1(<<"0">>)>>,
      <<HeaderLine, Line_a2(<<"1", "0">>)>> }

\* full call sets without a match, with one and with two
MainFullFiles ==
    { <<>>,
      <<Line_a1(<<"x">>)>>,
      <<Line_a1(<<"x">>), Line_a2(<<"x">>)>> }

TrainLines ==
    { HeaderLine, Line_a1(<<"y">>), Line_a2(<<"y">>) }

InitMain ==
    /\ pc = "read_validation"
    /\ err = ""
    /\ i = 1
    /\ val_vcf \in MainValFiles
    /\ full_vcf \in MainFullFiles
    /\ tp_coords = <<>>
    /\ fp_coords = <<>>
    /\ coords = [tp |-> {}, fp |-> {}]
    /\ outs = [tp |-> <<>>, fp |-> <<>>]
    /\ mp_tps_vcf \in Files(TrainLines, MaxTrainLines)
    /\ mp_fps_vcf \in Files(TrainLines, MaxTrainLines)
    /\ wrongtp_out = <<>>
    /\ wrongfp_out = <<>>
    /\ NoMetrics
    /\ NoTable
    /\ NoFn

\* main opens the train-wrongtps output and the training true positives
main_open_wrongtp ==
    /\ pc = "done"
    /\ err = ""
    /\ pc' = "wrongtp"
    /\ i' = 1
    /\ UNCHANGED <<err, partition_vars, metric_vars, table_vars, train_vars, fn_vars>>

\* the input, the truth label and the output of the running pass
TrainIn == IF pc = "wrongtp" THEN mp_tps_vcf ELSE mp_fps_vcf
TrainLabel == IF pc = "wrongtp" THEN "fp" ELSE "tp"
TrainOut == IF pc = "wrongtp" THEN wrongtp_out ELSE wrongfp_out

\* a variant of the loop body that consumes the matched coordinate
write_incorrect_train_line_consume ==
    /\ pc \in {"wrongtp", "wrongfp"}
    /\ err = ""
    /\ i <= Len(TrainIn)
    /\ LET line == TrainIn[i]
           out == TrainOut
           write(o) == IF pc = "wrongtp"
                       THEN wrongtp_out' = o /\ UNCHANGED wrongfp_out
                       ELSE wrongfp_out' = o /\ UNCHANGED wrongtp_out
       IN IF StartsWith(line, "#")
          THEN /\ write(Append(out, line))
               /\ i' = i + 1
               /\ UNCHANGED <<err, coords>>
          ELSE IF ~HasCoords(line)
          THEN /\ err' = "IndexError"
               /\ UNCHANGED <<i, wrongtp_out, wrongfp_out, coords>>
          ELSE /\ IF _get_coords(line) \in coords[TrainLabel]
                  THEN write(Append(out, line))
                  ELSE UNCHANGED <<wrongtp_out, wrongfp_out>>
               /\ coords' = [coords EXCEPT ![TrainLabel] = @ \ {_get_coords(line)}]
               /\ i' = i + 1
               /\ UNCHANGED err
    /\ UNCHANGED <<pc, val_vcf, full_vcf, tp_coords, fp_coords, outs>>
    /\ UNCHANGED <<mp_tps_vcf, mp_fps_vcf, metric_vars, table_vars, fn_vars>>

\* one iteration of the loop of write_incorrect_train
write_incorrect_train_line ==
    /\ pc \in {"wrongtp", "wrongfp"}
    /\ err = ""
    /\ i <= Len(TrainIn)
    /\ LET line == TrainIn[i]
           out == TrainOut
           write(o) == IF pc = "wrongtp"
                       THEN wrongtp_out' = o /\ UNCHANGED wrongfp_out
                       ELSE wrongfp_out' = o /\ UNCHANGED wrongtp_out
       IN IF StartsWith(line, "#")
          THEN /\ write(Append(out, line))
               /\ i' = i + 1
               /\ UNCHANGED err
          ELSE IF ~HasCoords(line)
          THEN /\ err' = "IndexError"
               /\ UNCHANGED <<i, wrongtp_out, wrongfp_out>>
          ELSE /\ IF _get_coords(line) \in coords[TrainLabel]
                  THEN write(Append(out, line))
                  ELSE UNCHANGED <<wrongtp_out, wrongfp_out>>
               /\ i' = i + 1
               /\ UNCHANGED err
    /\ UNCHANGED <<pc, partition_vars>>
    /\ UNCHANGED <<mp_tps_vcf, mp_fps_vcf, metric_vars, table_vars, fn_vars>>

\* the loop of write_incorrect_train is exhausted; main goes on to the next pass
write_incorrect_train_return ==
    /\ pc \in {"wrongtp", "wrongfp"}
    /\ err = ""
    /\ i > Len(TrainIn)
    /\ pc' = IF pc = "wrongtp" THEN "wrongfp" ELSE "main_done"
    /\ i' = 1
    /\ UNCHANGED <<err, partition_vars, metric_vars, table_vars, train_vars, fn_vars>>

NextMain ==
    \/ NextPartition
    \/ main_open_wrongtp
    \/ write_incorrect_train_line
    \/ write_incorrect_train_return

SpecMain == InitMain /\ [][NextMain]_vars

-----------------------------------------------------------------------------
(* identify_fns.py: read_fn_coords and the two report_matches passes of main *)

Line_a3(tok) == TextLine(<< <<"a">>, <<"3">>, tok >>)

FnFiles ==
    { <<>>,
      <<Line_a1(<<"n">>)>>,
      <<Line_a1(<<"n">>), ShortLine>>,
      <<HeaderLine, Line_a1(<<"n">>), Line_a2(<<"n">>)>>,
      <<Line_a1(<<"n">>), Line_a2(<<"n">>), Line_a3(<<"n">>), Line_a1(<<"n">>)>> }

CallLines ==
    { HeaderLine, Line_a1(<<"z">>), Line_a2(<<"z">>) }

InitFn ==
    /\ pc = "read_fn_coords"
    /\ err = ""
    /\ i = 1
    /\ fn_vcf \in FnFiles
    /\ nohap_vcf \in Files(CallLines, MaxCallLines)
    /\ fosmid_vcf \in Files(CallLines, MaxCallLines)
    /\ coords_list = <<>>
    /\ fn_coords = {}
    /\ nohap_out = <<>>
    /\ filtered_out = <<>>
    /\ NoPartition
    /\ NoMetrics
    /\ NoTable
    /\ NoTrain

\* one iteration of the loop of read_fn_coords
read_fn_coords_line ==
    /\ pc = "read_fn_coords"
    /\ err = ""
    /\ i <= Len(fn_vcf)
    /\ LET line == fn_vcf[i] IN
         IF StartsWith(line, "#")
         THEN /\ i' = i + 1
              /\ UNCHANGED <<err, coords_list>>
         ELSE IF ~HasCoords(line)
         THEN /\ err' = "IndexError"
              /\ UNCHANGED <<i, coords_list>>
         ELSE /\ coords_list' = Append(coords_list, _get_coords(line))
              /\ i' = i + 1
              /\ UNCHANGED err
    /\ UNCHANGED <<pc, fn_vcf, nohap_vcf, fosmid_vcf, fn_coords, nohap_out, filtered_out>>
    /\ UNCHANGED <<partition_vars, metric_vars, table_vars, train_vars>>

\* return set(coords); main opens the non-haploid calls and the nohap output
read_fn_coords_return ==
    /\ pc = "read_fn_coords"
    /\ err = ""
    /\ i > Len(fn_vcf)
    /\ fn_coords' = Range(coords_list)
    /\ pc' = "report_nohap"
    /\ i' = 1
    /\ UNCHANGED <<err, fn_vcf, nohap_vcf, fosmid_vcf, coords_list, nohap_out, filtered_out>>
    /\ UNCHANGED <<partition_vars, metric_vars, table_vars, train_vars>>

\* the input and the output of the running report_matches pass
ReportIn == IF pc = "report_nohap" THEN nohap_vcf ELSE fosmid_vcf
ReportOut == IF pc = "report_nohap" THEN nohap_out ELSE filtered_out

\* a variant of the loop body that leaves the matched coordinate in the set
report_matches_line_keep ==
    /\ pc \in {"report_nohap", "report_fosmid"}
    /\ err = ""
    /\ i <= Len(ReportIn)
    /\ LET line == ReportIn[i]
           out == ReportOut
           write(o) == IF pc = "report_nohap"
                       THEN nohap_out' = o /\ UNCHANGED filtered_out
                       ELSE filtered_out' = o /\ UNCHANGED nohap_out
       IN IF StartsWith(line, "#")
          THEN /\ write(Append(out, line))
               /\ i' = i + 1
               /\ UNCHANGED <<err, fn_coords>>
          ELSE IF ~HasCoords(line)
          THEN /\ err' = "IndexError"
               /\ UNCHANGED <<i, nohap_out, filtered_out, fn_coords>>
          ELSE /\ IF _get_coords(line) \in fn_coords
                  THEN write(Append(out, line))
                  ELSE UNCHANGED <<nohap_out, filtered_out>>
               /\ UNCHANGED fn_coords
               /\ i' = i + 1
               /\ UNCHANGED err
    /\ UNCHANGED <<pc, fn_vcf, nohap_vcf, fosmid_vcf, coords_list>>
    /\ UNCHANGED <<partition_vars, metric_vars, table_vars, train_vars>>

\* one iteration of the loop of report_matches
report_matches_line ==
    /\ pc \in {"report_nohap", "report_fosmid"}
    /\ err = ""
    /\ i <= Len(ReportIn)
    /\ LET line == ReportIn[i]
           out == ReportOut
           write(o) == IF pc = "report_nohap"
                       THEN nohap_out' = o /\ UNCHANGED filtered_out
                       ELSE filtered_out' = o /\ UNCHANGED nohap_out
       IN IF StartsWith(line, "#")
          THEN /\ write(Append(out, line))
               /\ i' = i + 1
               /\ UNCHANGED <<err, fn_coords>>
          ELSE IF ~HasCoords(line)
          THEN /\ err' = "IndexError"
               /\ UNCHANGED <<i, nohap_out, filtered_out, fn_coords>>
          ELSE LET cur_coords == _get_coords(line) IN
               /\ IF cur_coords \in fn_coords
                  THEN /\ write(Append(out, line))
                       /\ fn_coords' = fn_coords \ {cur_coords}
                  ELSE UNCHANGED <<nohap_out, filtered_out, fn_coords>>
               /\ i' = i + 1
               /\ UNCHANGED err
    /\ UNCHANGED <<pc, fn_vcf, nohap_vcf, fosmid_vcf, coords_list>>
    /\ UNCHANGED <<partition_vars, metric_vars, table_vars, train_vars>>

\* return coords: main keeps the same set for the next pass
report_matches_return ==
    /\ pc \in {"report_nohap", "report_fosmid"}
    /\ err = ""
    /\ i > Len(ReportIn)
    /\ pc' = IF pc = "report_nohap" THEN "report_fosmid" ELSE "fn_done"
    /\ i' = 1
    /\ UNCHANGED <<err, partition_vars, metric_vars, table_vars, train_vars, fn_vars>>

NextFn ==
    \/ read_fn_coords_line
    \/ read_fn_coords_return
    \/ report_matches_line
    \/ report_matches_return

SpecFn == InitFn /\ [][NextFn]_vars

-----------------------------------------------------------------------------
(* Numbers and outcomes of the metric functions.  A Python float is modelled *)
(* as an exact rational [num, den] in lowest terms with den > 0.             *)

RECURSIVE GCD(_, _)
GCD(a, b) ==
    IF b = 0 THEN a ELSE GCD(b, a % b)

Abs(n) ==
    IF n < 0 THEN -n ELSE n

\* n / dn as a number, dn # 0
Rat(n, dn) ==
    LET g == GCD(Abs(n), Abs(dn))
        sgn == IF dn < 0 THEN -1 ELSE 1
    IN [num |-> sgn * (n \div g), den |-> sgn * (dn \div g)]

FromInt(n) == Rat(n, 1)
RSub(a, b) == Rat(a.num * b.den - b.num * a.den, a.den * b.den)
RMul(a, b) == Rat(a.num * b.num, a.den * b.den)
RDiv(a, b) == Rat(a.num * b.den, a.den * b.num)
RLess(a, b) == a.num * b.den < b.num * a.den
RMax(a, b) == IF RLess(a, b) THEN b ELSE a
RAbs(a) == [num |-> Abs(a.num), den |-> a.den]

\* what a call produces: a number, None, or a raised exception
Number(r) == [kind |-> "number", num |-> r.num, den |-> r.den]
None == [kind |-> "None", num |-> 0, den |-> 1]
Raise(e) == [kind |-> e, num |-> 0, den |-> 1]

-----------------------------------------------------------------------------
(* The per-sample call block (rec.samples[0].data).  A format field holds   *)
(* <<>> when the block lacks it and <<value>> when it has it; a value that   *)
(* may be a scalar or a list is [list, items].                               *)

\* hasattr(data, f)
HasAttr(block, f) ==
    block[f] # <<>>

\* data.f, for a field the block has
Attr(block, f) ==
    block[f][1]

Scalar(x) == [list |-> FALSE, items |-> <<x>>]
List(xs) == [list |-> TRUE, items |-> xs]

RECURSIVE Sum(_)
Sum(xs) ==
    IF xs = <<>> THEN 0 ELSE Head(xs) + Sum(Tail(xs))

\* min(x for x in xs if x > 0), for xs with a positive entry
MinPositive(xs) ==
    CHOOSE x \in Range(xs) : x > 0 /\ \A y \in Range(xs) : y > 0 => x <= y

-----------------------------------------------------------------------------
(* explore_val_classification.py: metric functions *)

_calc_dp(block) ==
    IF HasAttr(block, "DP") THEN Number(FromInt(Attr(block, "DP"))) ELSE None

\* a variant that never swaps the allele depths
_calc_ad_noswap(block) ==
    IF ~HasAttr(block, "AD") THEN None
    ELSE IF ~HasAttr(block, "GT") THEN Raise("AttributeError")
    ELSE LET GT == Attr(block, "GT")
             AD == Attr(block, "AD")
         IN IF GT \notin {"0", "0/0", "1", "1/1", "0/1"} THEN None
            ELSE IF Len(AD) # 2 THEN Raise("ValueError")
            ELSE LET target_ad == IF GT = "0/1" THEN Rat(1, 2) ELSE FromInt(1)
                     want == AD[1]
                     other == AD[2]
                 IN IF want + other > 0
                    THEN Number(RSub(target_ad, Rat(want, want + other)))
                    ELSE None

_calc_ad(block) ==
    IF ~HasAttr(block, "AD") THEN None
    ELSE IF ~HasAttr(block, "GT") THEN Raise("AttributeError")
    ELSE LET GT == Attr(block, "GT")
             AD == Attr(block, "AD")
         IN IF GT \notin {"0", "0/0", "1", "1/1", "0/1"}
            THEN None   \* print "Need to handle"; return None; the raise is not reached
            ELSE IF Len(AD) # 2 THEN Raise("ValueError")   \* tuple unpacking
            ELSE LET target_ad == IF GT = "0/1" THEN Rat(1, 2) ELSE FromInt(1)
                     want == IF GT \in {"1", "1/1"} THEN AD[2] ELSE AD[1]
                     other == IF GT \in {"1", "1/1"} THEN AD[1] ELSE AD[2]
                 IN IF want + other > 0
                    THEN Number(RSub(target_ad, Rat(want, want + other)))
                    ELSE None

\* a variant that takes the diploid homozygous genotypes with the haploid ones
_calc_pl_diploid(block) ==
    IF ~HasAttr(block, "PL") THEN None
    ELSE IF ~HasAttr(block, "GT") THEN Raise("AttributeError")
    ELSE LET GT == Attr(block, "GT")
             PL == Attr(block, "PL")
         IN IF GT \in {"0", "0/0"}
            THEN IF Len(PL) = 0 THEN Raise("IndexError")
                 ELSE Number(Rat(PL[Len(PL)], 10))
            ELSE IF GT \in {"1", "1/1"}
            THEN IF Len(PL) = 0 THEN Raise("IndexError")
                 ELSE Number(Rat(PL[1], 10))
            ELSE IF \E j \in 1..Len(PL) : PL[j] > 0
                 THEN Number(Rat(MinPositive(PL), 10))
                 ELSE Raise("ValueError")

_calc_pl(block) ==
    IF ~HasAttr(block, "PL") THEN None
    ELSE IF ~HasAttr(block, "GT") THEN Raise("AttributeError")
    ELSE LET GT == Attr(block, "GT")
             PL == Attr(block, "PL")
         IN IF GT = "0"
            THEN IF Len(PL) = 0 THEN Raise("IndexError")
                 ELSE Number(Rat(PL[Len(PL)], 10))
            ELSE IF GT = "1"
            THEN IF Len(PL) = 0 THEN Raise("IndexError")
                 ELSE Number(Rat(PL[1], 10))
            ELSE IF \E j \in 1..Len(PL) : PL[j] > 0
                 THEN Number(Rat(MinPositive(PL), 10))
                 ELSE Raise("ValueError")   \* min() of an empty sequence

-----------------------------------------------------------------------------
(* freebayes_filtering.py: metric functions *)

\* sum(x) if isinstance(x, list) else x
SumOrScalar(x) ==
    IF x.list THEN Sum(x.items) ELSE x.items[1]

\* altc = float(sum(data.AO) if isinstance(data.AO, list) else data.AO)
altc(block) ==
    SumOrScalar(Attr(block, "AO"))

\* refc = float(data.DP - altc)
refc(block) ==
    Attr(block, "DP") - altc(block)

\* sum(q) if isinstance(q, list) else q / float(count)
PerBase(q, count) ==
    IF q.list THEN FromInt(Sum(q.items)) ELSE Rat(q.items[1], count)

strand_bias(block) ==
    IF ~HasAttr(block, "AO") \/ ~HasAttr(block, "DP") THEN Raise("AttributeError")
    ELSE IF refc(block) > 0 /\ ~HasAttr(block, "QR") THEN Raise("AttributeError")
    ELSE IF altc(block) > 0 /\ ~HasAttr(block, "QA") THEN Raise("AttributeError")
    ELSE LET qr == IF refc(block) > 0
                   THEN PerBase(Attr(block, "QR"), refc(block))
                   ELSE FromInt(0)
             qa == IF altc(block) > 0
                   THEN PerBase(Attr(block, "QA"), altc(block))
                   ELSE FromInt(0)
             top == RMax(qr, qa)
         IN IF top.num = 0 THEN Raise("ZeroDivisionError")
            ELSE Number(RMul(RDiv(RSub(qr, qa), top), FromInt(100)))

percent_ad_deviation(block) ==
    IF ~HasAttr(block, "AO") \/ ~HasAttr(block, "DP") \/ ~HasAttr(block, "GT")
    THEN Raise("AttributeError")
    ELSE LET expected == IF Attr(block, "GT") = "0/1" THEN Rat(1, 2) ELSE FromInt(1)
             total == altc(block) + refc(block)
         IN IF total = 0 THEN Raise("ZeroDivisionError")
            ELSE Number(RAbs(RSub(expected, Rat(altc(block), total))))

-----------------------------------------------------------------------------
(* The metric functions applied to a call block *)

Opt(S) ==
    {<<>>} \cup {<<v>> : v \in S}

Block(gt, ad, pl, dp, ao, qr, qa) ==
    [GT |-> gt, AD |-> ad, PL |-> pl, DP |-> dp, AO |-> ao, QR |-> qr, QA |-> qa]

GTs == {"0", "0/0", "1", "1/1", "0/1", "2/2"}
ADs == [1..2 -> 0..MaxDepth] \cup {<<5, 2, 1>>}
PLValues == {0, 15, 30}
PLs == UNION {[1..n -> PLValues] : n \in 2..MaxPLLen}
AOs == {Scalar(0), Scalar(1), Scalar(2), List(<<1, 1>>), List(<<0, 0>>)}
QRs == {Scalar(0), Scalar(30), List(<<20, 10>>)}
QAs == {Scalar(0), Scalar(50), Scalar(60), List(<<20, 40>>)}

\* blocks of a GATK-style record: every genotype and allele depth
ADBlocks ==
    {Block(gt, ad, pl, dp, <<>>, <<>>, <<>>) :
        gt \in Opt(GTs), ad \in Opt(ADs),
        pl \in Opt({<<0, 15, 30>>}), dp \in Opt({10})}

\* blocks of a GATK-style record: every genotype and likelihood list
PLBlocks ==
    {Block(gt, ad, pl, dp, <<>>, <<>>, <<>>) :
        gt \in Opt(GTs), ad \in Opt({<<8, 2>>}),
        pl \in Opt(PLs), dp \in Opt({10})}

\* blocks of a FreeBayes record
FreebayesBlocks ==
    {Block(gt, <<>>, <<>>, dp, ao, qr, qa) :
        gt \in Opt({"0/1", "1/1"}), dp \in Opt({0, 2, 4}),
        ao \in Opt(AOs), qr \in Opt(QRs), qa \in Opt(QAs)}

Blocks ==
    ADBlocks \cup PLBlocks \cup FreebayesBlocks

InitMetrics ==
    /\ pc = "call"
    /\ err = ""
    /\ i = 1
    /\ data \in Blocks
    /\ ret = [fn |-> "", out |-> None]
    /\ NoPartition
    /\ NoTable
    /\ NoTrain
    /\ NoFn

Return(fn, out) ==
    /\ pc = "call"
    /\ ret' = [fn |-> fn, out |-> out]
    /\ pc' = "returned"
    /\ UNCHANGED <<err, i, data, partition_vars, table_vars, train_vars, fn_vars>>

apply_calc_dp == Return("_calc_dp", _calc_dp(data))
apply_calc_ad == Return("_calc_ad", _calc_ad(data))
apply_calc_pl == Return("_calc_pl", _calc_pl(data))
apply_strand_bias == Return("strand_bias", strand_bias(data))
apply_percent_ad_deviation == Return("percent_ad_deviation", percent_ad_deviation(data))

NextMetrics ==
    \/ apply_calc_dp
    \/ apply_calc_ad
    \/ apply_calc_pl
    \/ apply_strand_bias
    \/ apply_percent_ad_deviation

SpecMetrics == InitMetrics /\ [][NextMetrics]_vars

-----------------------------------------------------------------------------
(* explore_val_classification.py: read_vcf_metrics *)

\* the INFO metrics of main (a sample of them) and the format metrics of main
\* and of sanger_decisiontree
MetricLists == {<<>>, <<"MQ">>, <<"FS", "MQ">>}
FormatLists == {<<"AD", "PL", "QUAL", "DP">>, <<"AD", "PL", "QUAL">>}
Targets == {1, -1}

Record(info, block, qual, indel) ==
    [INFO |-> info, data |-> block, QUAL |-> qual, is_indel |-> indel]

\* a record with every metric, one with none, one whose AD is multi-allelic
Records ==
    { Record([MQ |-> 60, FS |-> 2],
             Block(<<"0/1">>, << <<8, 2>> >>, << <<30, 0, 15>> >>, <<10>>,
                   <<>>, <<>>, <<>>),
             50, FALSE),
      Record(<<>>,
             Block(<<"0/0">>, <<>>, <<>>, <<>>, <<>>, <<>>, <<>>),
             10, TRUE),
      Record([MQ |-> 40],
             Block(<<"0/1">>, << <<5, 2, 1>> >>, << <<30, 0, 15>> >>, <<10>>,
                   <<>>, <<>>, <<>>),
             20, FALSE) }

InitTable ==
    /\ pc = "read_vcf_metrics_start"
    /\ err = ""
    /\ i = 1
    /\ metrics \in MetricLists
    /\ format_metrics \in FormatLists
    /\ target \in Targets
    /\ recs \in UNION {[1..n -> Records] : n \in 0..MaxRecs}
    /\ d = <<>>
    /\ NoPartition
    /\ NoMetrics
    /\ NoTrain
    /\ NoFn

\* d = {"target": [], "indel": []}; d[x] = [] for x in metrics + format_metrics
read_vcf_metrics_start ==
    /\ pc = "read_vcf_metrics_start"
    /\ d' = [x \in {"target", "indel"} \cup Range(metrics \o format_metrics) |-> <<>>]
    /\ pc' = "read_vcf_metrics"
    /\ UNCHANGED <<err, i, metrics, format_metrics, target, recs>>
    /\ UNCHANGED <<partition_vars, metric_vars, train_vars, fn_vars>>

\* rec.INFO.get(x, None)
InfoGet(info, x) ==
    IF x \in DOMAIN info THEN Number(FromInt(info[x])) ELSE None

\* for x in metrics: d[x].append(rec.INFO.get(x, None))
RECURSIVE AppendInfo(_, _, _)
AppendInfo(dd, info, ms) ==
    IF ms = <<>> THEN dd
    ELSE AppendInfo([dd EXCEPT ![Head(ms)] = Append(@, InfoGet(info, Head(ms)))],
                    info, Tail(ms))

\* d[col].append(out) after the statements before it: the first exception stays
AppendColumn(st, col, out) ==
    IF st.err # "" THEN st
    ELSE IF col \notin DOMAIN st.d THEN [st EXCEPT !.err = "KeyError"]
    ELSE IF out.kind \notin {"number", "None"} THEN [st EXCEPT !.err = out.kind]
    ELSE [st EXCEPT !.d = [@ EXCEPT ![col] = Append(@, out)]]

\* the body of the loop over the records: the dictionary and the exception after it
LoopBody(rec) ==
    LET s0 == [d |-> [AppendInfo(d, rec.INFO, metrics) EXCEPT !["target"] = target],
               err |-> ""]
        s1 == AppendColumn(s0, "AD", _calc_ad(rec.data))
        s2 == AppendColumn(s1, "PL", _calc_pl(rec.data))
        s3 == AppendColumn(s2, "DP", _calc_dp(rec.data))
        s4 == AppendColumn(s3, "QUAL", Number(FromInt(rec.QUAL)))
    IN AppendColumn(s4, "indel", Number(FromInt(IF rec.is_indel THEN 1 ELSE 0)))

read_vcf_metrics_rec ==
    /\ pc = "read_vcf_metrics"
    /\ err = ""
    /\ i <= Len(recs)
    /\ LET st == LoopBody(recs[i]) IN
         /\ d' = st.d
         /\ err' = st.err
         /\ i' = IF st.err = "" THEN i + 1 ELSE i
    /\ UNCHANGED <<pc, metrics, format_metrics, target, recs>>
    /\ UNCHANGED <<partition_vars, metric_vars, train_vars, fn_vars>>

\* return pandas.DataFrame(d): the list columns must be of one length
read_vcf_metrics_return ==
    /\ pc = "read_vcf_metrics"
    /\ err = ""
    /\ i > Len(recs)
    /\ IF \A x, y \in DOMAIN d \ {"target"} : Len(d[x]) = Len(d[y])
       THEN pc' = "done" /\ UNCHANGED err
       ELSE err' = "ValueError" /\ UNCHANGED pc
    /\ UNCHANGED <<i, metrics, format_metrics, target, recs, d>>
    /\ UNCHANGED <<partition_vars, metric_vars, train_vars, fn_vars>>

NextTable ==
    \/ read_vcf_metrics_start
    \/ read_vcf_metrics_rec
    \/ read_vcf_metrics_return

SpecTable == InitTable /\ [][NextTable]_vars

-----------------------------------------------------------------------------
(* Properties of pull_tps_fps.py *)

IsDataLine(l) ==
    ~(Len(l) > 0 /\ l[1] = "#")

CoordinateKey(l) ==
    <<Split(l)[1], Split(l)[2]>>

Keyed(l) ==
    IsDataLine(l) /\ Len(Split(l)) >= 2

\* the lines the loops have consumed so far
ProcessedVal ==
    IF pc = "read_validation" THEN SubSeq(val_vcf, 1, i - 1) ELSE val_vcf

ProcessedFull ==
    IF pc = "read_validation" THEN <<>> ELSE SubSeq(full_vcf, 1, i - 1)

\* the truth set of a label as read_validation built it
TruthSet(k) ==
    IF k = "tp" THEN Range(tp_coords) ELSE Range(fp_coords)

DataLines(s) ==
    SelectSeq(s, IsDataLine)

KeysOf(s) ==
    [j \in 1..Len(s) |-> CoordinateKey(s[j])]

\* the line, trailing whitespace apart, ends in the character "0"
ZeroTerminated(l) ==
    \E j \in 1..Len(l) :
        /\ l[j] = "0"
        /\ \A m \in (j + 1)..Len(l) : l[m] \in Whitespace

\* the last tab-separated token of the line, its line terminator removed
TerminalToken(l) ==
    LET body == IF Len(l) > 0 /\ l[Len(l)] = NL THEN SubSeq(l, 1, Len(l) - 1) ELSE l
        parts == Split(body)
    IN parts[Len(parts)]

\* the validated file gives the coordinate both labels
Conflicting(key) ==
    \E a, b \in 1..Len(val_vcf) :
        /\ Keyed(val_vcf[a]) /\ CoordinateKey(val_vcf[a]) = key
        /\ Keyed(val_vcf[b]) /\ CoordinateKey(val_vcf[b]) = key
        /\ ZeroTerminated(val_vcf[a])
        /\ ~ZeroTerminated(val_vcf[b])

\* C1: the data lines written to a label's stream are, in input order, exactly
\* the data lines of the full call set whose (chromosome, position) key is in
\* that label's truth set; a line whose key is in no truth set is in no stream.
C1_PartitionCompleteness ==
    \A k \in Labels :
        DataLines(outs[k]) =
            SelectSeq(ProcessedFull,
                      LAMBDA l : Keyed(l) /\ CoordinateKey(l) \in TruthSet(k))

C1_Witness ==
    /\ pc = "done"
    /\ DataLines(outs["tp"]) # <<>>
    /\ \E j \in 1..Len(full_vcf) :
          /\ IsDataLine(full_vcf[j])
          /\ full_vcf[j] \notin Range(outs["tp"]) \cup Range(outs["fp"])

\* C2 as stated: after the pass each label's truth set has lost its matched
\* coordinates, |initial| = |data lines written| + |residual|, and the residual is
\* the truth coordinates without a record in the full call set.
C2_ConsumedConservation ==
    pc = "done" =>
        \A k \in Labels :
            /\ Cardinality(TruthSet(k)) =
                   Len(DataLines(outs[k])) + Cardinality(coords[k])
            /\ coords[k] =
                   {c \in TruthSet(k) :
                       \A j \in 1..Len(full_vcf) :
                           Keyed(full_vcf[j]) => CoordinateKey(full_vcf[j]) # c}

\* C2 amended: the pass leaves each truth set as read_validation built it, and
\* at its end |truth set| = |distinct coordinates written to the label's stream|
\* + |truth coordinates without a record in the full call set|.
C2_UnconsumedConservation ==
    pc \in {"write_vcf_subsets", "done"} =>
        \A k \in Labels :
            /\ coords[k] = TruthSet(k)
            /\ pc = "done" =>
                 Cardinality(TruthSet(k)) =
                     Cardinality(Range(KeysOf(DataLines(outs[k]))))
                     + Cardinality({c \in coords[k] :
                           \A j \in 1..Len(full_vcf) :
                               Keyed(full_vcf[j]) => CoordinateKey(full_vcf[j]) # c})

C2_Witness ==
    /\ pc = "done"
    /\ \E k \in Labels :
          /\ Len(DataLines(outs[k])) >
                 Cardinality(Range(KeysOf(DataLines(outs[k]))))
          /\ \E c \in coords[k] :
                 \A j \in 1..Len(full_vcf) :
                     Keyed(full_vcf[j]) => CoordinateKey(full_vcf[j]) # c

\* C3 as stated: no data line is written to both streams.
C3_ExclusivePartition ==
    \A j \in 1..Len(outs["tp"]) :
        IsDataLine(outs["tp"][j]) => outs["tp"][j] \notin Range(outs["fp"])

\* C3 amended: a data line of the full call set is written to both streams
\* exactly when the validated file carries its coordinate both on a line that
\* ends in "0" and on one that does not; any other written line is in one stream.
C3_DualRouting ==
    \A j \in 1..Len(ProcessedFull) :
        LET l == ProcessedFull[j] IN
        Keyed(l) =>
            ((l \in Range(outs["tp"]) /\ l \in Range(outs["fp"]))
                <=> Conflicting(CoordinateKey(l)))

C3_Witness ==
    \E j \in 1..Len(outs["tp"]) :
        /\ IsDataLine(outs["tp"][j])
        /\ outs["tp"][j] \in Range(outs["fp"])

\* C4 as stated: a data line's coordinate goes to the false-positive list exactly
\* when the line's terminal token is "0", and to the true-positive list otherwise.
C4_LabelByTerminalToken ==
    /\ fp_coords = KeysOf(SelectSeq(ProcessedVal,
                     LAMBDA l : IsDataLine(l) /\ TerminalToken(l) = <<"0">>))
    /\ tp_coords = KeysOf(SelectSeq(ProcessedVal,
                     LAMBDA l : IsDataLine(l) /\ TerminalToken(l) # <<"0">>))

\* C4 amended: "#" lines are skipped; a data line's coordinate goes to the
\* false-positive list exactly when the line, trailing whitespace stripped, ends
\* in the character "0" (so also for a terminal token such as "10"), and to the
\* true-positive list otherwise.
C4_LabelByTrailingZero ==
    /\ fp_coords = KeysOf(SelectSeq(ProcessedVal,
                     LAMBDA l : IsDataLine(l) /\ ZeroTerminated(l)))
    /\ tp_coords = KeysOf(SelectSeq(ProcessedVal,
                     LAMBDA l : IsDataLine(l) /\ ~ZeroTerminated(l)))

C4_Witness ==
    /\ pc = "write_vcf_subsets"
    /\ tp_coords # <<>>
    /\ \E j \in 1..Len(val_vcf) :
          /\ IsDataLine(val_vcf[j])
          /\ TerminalToken(val_vcf[j]) = <<"1", "0">>
          /\ CoordinateKey(val_vcf[j]) \in Range(fp_coords)

-----------------------------------------------------------------------------
(* Properties of the metric functions *)

\* the outcome is the number n / dn
IsNumber(o, n, dn) ==
    o.kind = "number" /\ o.num * dn = n * o.den

Called(fn) ==
    pc = "returned" /\ ret.fn = fn

SupportedGT == {"0", "0/0", "1", "1/1", "0/1"}

\* C5: for AD = (ref, alt), _calc_ad returns 1 - ref/(ref+alt) for GT "0" or
\* "0/0", 1 - alt/(ref+alt) for GT "1" or "1/1", 0.5 - ref/(ref+alt) for GT "0/1";
\* it returns None when ref+alt is not positive or AD is absent; GT "0/0" with
\* AD (8,2) gives 0.2 and GT "0/1" with AD (5,5) gives 0.
C5_AlleleDepthDeviation ==
    Called("_calc_ad") =>
        /\ ~HasAttr(data, "AD") => ret.out = None
        /\ (/\ HasAttr(data, "AD") /\ HasAttr(data, "GT")
            /\ Len(Attr(data, "AD")) = 2 /\ Attr(data, "GT") \in SupportedGT) =>
              LET GT == Attr(data, "GT")
                  ref == Attr(data, "AD")[1]
                  alt == Attr(data, "AD")[2]
                  tot == ref + alt
              IN /\ tot <= 0 => ret.out = None
                 /\ (tot > 0 /\ GT \in {"0", "0/0"}) => IsNumber(ret.out, tot - ref, tot)
                 /\ (tot > 0 /\ GT \in {"1", "1/1"}) => IsNumber(ret.out, tot - alt, tot)
                 /\ (tot > 0 /\ GT = "0/1") => IsNumber(ret.out, tot - 2 * ref, 2 * tot)
                 /\ (GT = "0/0" /\ ref = 8 /\ alt = 2) => IsNumber(ret.out, 2, 10)
                 /\ (GT = "0/1" /\ ref = 5 /\ alt = 5) => IsNumber(ret.out, 0, 1)

C5_Witness ==
    /\ Called("_calc_ad")
    /\ data["GT"] = <<"1/1">>
    /\ data["AD"] = << <<8, 2>> >>
    /\ ret.out = [kind |-> "number", num |-> 4, den |-> 5]

\* C6: with AD present and a genotype outside the supported ones, _calc_ad
\* raises and does not return None.
C6_UnsupportedGenotypeRaises ==
    (/\ Called("_calc_ad")
     /\ HasAttr(data, "AD") /\ HasAttr(data, "GT")
     /\ Attr(data, "GT") \notin SupportedGT) =>
        /\ ret.out.kind = "ValueError"
        /\ ret.out # None

\* C7 as stated: with PL present, _calc_pl returns PL[last]/10 for GT "0" and
\* "0/0", PL[0]/10 for GT "1" and "1/1", the least positive entry / 10 for any
\* other genotype, and None when PL is absent (checked on the likelihood lists
\* that hold a positive entry, where the least positive entry exists).
C7_HomozygousLikelihood ==
    Called("_calc_pl") =>
        /\ ~HasAttr(data, "PL") => ret.out = None
        /\ (/\ HasAttr(data, "PL") /\ HasAttr(data, "GT")
            /\ \E j \in 1..Len(Attr(data, "PL")) : Attr(data, "PL")[j] > 0) =>
              LET GT == Attr(data, "GT")
                  PL == Attr(data, "PL")
              IN /\ GT \in {"0", "0/0"} => IsNumber(ret.out, PL[Len(PL)], 10)
                 /\ GT \in {"1", "1/1"} => IsNumber(ret.out, PL[1], 10)
                 /\ GT \notin {"0", "0/0", "1", "1/1"} =>
                        IsNumber(ret.out, MinPositive(PL), 10)

\* C7 amended: with PL present, _calc_pl returns PL[last]/10 only for GT "0"
\* and PL[0]/10 only for GT "1"; for any other genotype, "0/0" and "1/1"
\* included, it returns the least strictly-positive entry / 10, and raises
\* ValueError when no entry is positive; it returns None when PL is absent.
C7_HaploidLikelihood ==
    Called("_calc_pl") =>
        /\ ~HasAttr(data, "PL") => ret.out = None
        /\ (HasAttr(data, "PL") /\ HasAttr(data, "GT")) =>
              LET GT == Attr(data, "GT")
                  PL == Attr(data, "PL")
                  positive == {PL[j] : j \in {j \in 1..Len(PL) : PL[j] > 0}}
              IN /\ GT = "0" => IsNumber(ret.out, PL[Len(PL)], 10)
                 /\ GT = "1" => IsNumber(ret.out, PL[1], 10)
                 /\ (GT \notin {"0", "1"} /\ positive # {}) =>
                        \E x \in positive :
                            /\ \A y \in positive : x <= y
                            /\ IsNumber(ret.out, x, 10)
                 /\ (GT \notin {"0", "1"} /\ positive = {}) =>
                        ret.out.kind = "ValueError"

C7_Witness ==
    /\ Called("_calc_pl")
    /\ data["GT"] = <<"0/0">>
    /\ data["PL"] = << <<0, 15, 30>> >>
    /\ ret.out = [kind |-> "number", num |-> 3, den |-> 2]

\* C8: with qr and qa the per-base qualities (0 for a zero count), strand_bias
\* returns (qr - qa) / max(qr, qa) * 100, and 0 when both are zero.
C8_StrandBiasZeroPolicy ==
    (/\ Called("strand_bias")
     /\ \A f \in {"AO", "DP", "QR", "QA"} : HasAttr(data, f)) =>
        LET qr == IF refc(data) > 0
                  THEN PerBase(Attr(data, "QR"), refc(data)) ELSE FromInt(0)
            qa == IF altc(data) > 0
                  THEN PerBase(Attr(data, "QA"), altc(data)) ELSE FromInt(0)
        IN IF qr.num = 0 /\ qa.num = 0
           THEN IsNumber(ret.out, 0, 1)
           ELSE ret.out = Number(RMul(RDiv(RSub(qr, qa), RMax(qr, qa)), FromInt(100)))

Requires(fn) ==
    CASE fn = "_calc_ad" -> {"AD"}
      [] fn = "_calc_pl" -> {"PL"}
      [] fn = "_calc_dp" -> {"DP"}
      [] fn = "strand_bias" -> {"AO", "DP", "QR", "QA"}
      [] fn = "percent_ad_deviation" -> {"AO", "DP"}
      [] OTHER -> {}

\* C9: a metric function applied to a block that lacks a format field it
\* requires returns None and does not fail.
C9_MissingFieldTolerance ==
    (pc = "returned" /\ \E f \in Requires(ret.fn) : ~HasAttr(data, f)) =>
        ret.out = None

-----------------------------------------------------------------------------
(* Properties of read_vcf_metrics *)

Columns ==
    Range(metrics \o format_metrics) \cup {"indel"}

\* C10: after the first i records every metric column holds exactly i values in
\* arrival order, no record aborts the pass, and the pass ends with one row per
\* record.
C10_OneRowPerRecord ==
    pc \in {"read_vcf_metrics", "done"} =>
        /\ err = ""
        /\ \A x \in Columns : Len(d[x]) = i - 1
        /\ \A j \in 1..(i - 1) :
              /\ d["indel"][j] = Number(FromInt(IF recs[j].is_indel THEN 1 ELSE 0))
              /\ d["QUAL"][j] = Number(FromInt(recs[j].QUAL))
        /\ pc = "done" => i - 1 = Len(recs)

-----------------------------------------------------------------------------
(* Properties of the write_incorrect_train passes of pull_tps_fps main *)

\* the lines of a training file a pass has consumed so far
TrainProcessed(p) ==
    LET f == IF p = "wrongtp" THEN mp_tps_vcf ELSE mp_fps_vcf
    IN IF pc = p THEN SubSeq(f, 1, i - 1)
       ELSE IF pc = "main_done" \/ (p = "wrongtp" /\ pc = "wrongfp") THEN f
       ELSE <<>>

\* what a pass has to emit: the headers and the candidates of the truth set
Flagged(p, k) ==
    SelectSeq(TrainProcessed(p),
              LAMBDA l : ~IsDataLine(l)
                         \/ (Keyed(l) /\ CoordinateKey(l) \in TruthSet(k)))

\* C11: each write_incorrect_train pass, run after write_vcf_subsets, copies
\* every header line and emits, in input order, exactly the candidate data lines
\* whose coordinate is in the opposite label's truth set as read_validation
\* built it, and leaves both truth sets unchanged.
C11_IncorrectTrainReadOnly ==
    pc \in {"wrongtp", "wrongfp", "main_done"} =>
        /\ wrongtp_out = Flagged("wrongtp", "fp")
        /\ wrongfp_out = Flagged("wrongfp", "tp")
        /\ \A k \in Labels : coords[k] = TruthSet(k)

C11_Witness ==
    /\ pc = "main_done"
    /\ \E j \in 1..Len(wrongtp_out) :
          /\ IsDataLine(wrongtp_out[j])
          /\ \E m \in 1..Len(outs["fp"]) :
                /\ IsDataLine(outs["fp"][m])
                /\ CoordinateKey(outs["fp"][m]) = CoordinateKey(wrongtp_out[j])
    /\ \E j \in 1..Len(wrongtp_out) : ~IsDataLine(wrongtp_out[j])
    /\ \E j \in 1..Len(mp_fps_vcf) :
          IsDataLine(mp_fps_vcf[j]) /\ mp_fps_vcf[j] \notin Range(wrongfp_out)

-----------------------------------------------------------------------------
(* Properties of the report_matches passes of identify_fns main *)

\* the set read_fn_coords returned
InitialFn ==
    Range(coords_list)

\* the lines the two passes have consumed so far, in the order consumed
ReportedNohap ==
    IF pc = "report_nohap" THEN SubSeq(nohap_vcf, 1, i - 1)
    ELSE IF pc \in {"report_fosmid", "fn_done"} THEN nohap_vcf
    ELSE <<>>

ReportedFosmid ==
    IF pc = "report_fosmid" THEN SubSeq(fosmid_vcf, 1, i - 1)
    ELSE IF pc = "fn_done" THEN fosmid_vcf
    ELSE <<>>

\* line j of all is the first line of all with its coordinate, an initial one
FirstHit(all, j) ==
    /\ Keyed(all[j])
    /\ CoordinateKey(all[j]) \in InitialFn
    /\ \A m \in 1..(j - 1) :
          Keyed(all[m]) => CoordinateKey(all[m]) # CoordinateKey(all[j])

RECURSIVE FirstHits(_, _, _)
FirstHits(all, j, to) ==
    IF j > to THEN <<>>
    ELSE (IF FirstHit(all, j) THEN <<all[j]>> ELSE <<>>) \o FirstHits(all, j + 1, to)

\* C12: the two report_matches passes share one set; a data line is written
\* exactly when its coordinate is still in the set (no earlier line of either
\* file had it), and the coordinate is then removed.  So every initial
\* coordinate has at most one written data line, |initial set| = |data lines of
\* pass 1| + |data lines of pass 2| + |residual|, and the final residual is the
\* initial coordinates that occur in neither file.
C12_ChainedConsumption ==
    pc \in {"report_nohap", "report_fosmid", "fn_done"} =>
        LET all == ReportedNohap \o ReportedFosmid
            n == Len(ReportedNohap)
            w1 == DataLines(nohap_out)
            w2 == DataLines(filtered_out)
            keys == Range(KeysOf(w1 \o w2))
        IN /\ w1 = FirstHits(all, 1, n)
           /\ w2 = FirstHits(all, n + 1, Len(all))
           /\ Cardinality(keys) = Len(w1) + Len(w2)
           /\ fn_coords = InitialFn \ keys
           /\ Cardinality(InitialFn) = Len(w1) + Len(w2) + Cardinality(fn_coords)
           /\ pc = "fn_done" =>
                fn_coords =
                    {c \in InitialFn :
                        \A j \in 1..Len(all) : Keyed(all[j]) => CoordinateKey(all[j]) # c}

C12_Witness ==
    /\ pc = "fn_done"
    /\ Len(nohap_vcf) = 2
    /\ Keyed(nohap_vcf[1]) /\ nohap_vcf[2] = nohap_vcf[1]
    /\ DataLines(nohap_out) = <<nohap_vcf[1]>>
    /\ nohap_vcf[1] \in Range(fosmid_vcf)
    /\ Len(DataLines(filtered_out)) = 1
    /\ fn_coords # {}

====
